---------------------------- MODULE Spec2Model ----------------------------
(***************************************************************************)
(* A model of the SVG optimizer of src/App.tsx: the attribute transformer  *)
(* optimizeSvgBase, and the derived values the App component recomputes on *)
(* every render (parsedSizes, baseOptimizedSvg, previewRenderSvg,          *)
(* outputSvg, svgPreviewUrl).                                              *)
(*                                                                         *)
(* TEXT.  A JavaScript string is modelled as a sequence of atoms.  An atom *)
(* is a TLA+ string standing for the characters it spells: "<", "svg",     *)
(* "fill", "=", "data-" ...  The atom alphabet is chosen so that a keyword *)
(* the code searches for (svg, fill, stroke, class, xmlns, width, height)  *)
(* is spelled by exactly one atom and never by the characters of two       *)
(* neighbouring atoms, and so that ">" , "<", "\"" and "," occur only as   *)
(* atoms of their own.  A regular expression of the code is therefore      *)
(* matched atom by atom exactly as the engine matches it character by      *)
(* character.  CodeUnits gives the UTF-16 code units of every atom, which  *)
(* is what the data-URL encoder works on.                                  *)
(***************************************************************************)
EXTENDS Integers, Sequences, FiniteSets, TLC

(***************************************************************************)
(* Generic helpers on sequences.                                           *)
(***************************************************************************)
Range(s) == {s[i] : i \in 1..Len(s)}

\* The concatenation of the sequences of ss (by halves, which keeps the
\* evaluation shallow on long texts).
RECURSIVE Flatten(_)
Flatten(ss) ==
  IF Len(ss) = 0 THEN <<>>
  ELSE IF Len(ss) = 1 THEN ss[1]
  ELSE LET h == Len(ss) \div 2
       IN Flatten(SubSeq(ss, 1, h)) \o Flatten(SubSeq(ss, h + 1, Len(ss)))

\* The least element of a non-empty set of integers.
Min(S) == CHOOSE x \in S : \A y \in S : x <= y

(***************************************************************************)
(* The characters.                                                         *)
(***************************************************************************)
LT == "<"
GT == ">"
SLASH == "/"
EQ == "="
DQ == "\""
SQ == "'"
SP == " "
NL == "\n"
\* The SVG namespace name, as in defaultSvg (src/App.tsx line 5).
SVGNS == "http://www.w3.org/2000/svg"
\* An unpaired UTF-16 high surrogate (the single code unit 0xD83D).
LONE == "\\uD83D"

\* String.prototype.trim's white space, and XML's S production.
WhiteSpace == {SP, NL}

\* Atoms all of whose characters are XML NameChars and whose first character
\* is a NameStartChar.
NameStartAtoms ==
  {"svg", "SVG", "g", "path", "parsererror", "xmlns", "width", "height",
   "class", "fill", "stroke", "data-", "viewBox", "d", "a", "b", "x",
   "none", "red", "abc", "currentColor", "round", "lucide",
   "\\u00E9", "\\u20AC", "\\uD83D\\uDE00"}

\* Atoms all of whose characters are NameChars (digits, "-" and "." may not
\* start a name).
NameAtoms ==
  NameStartAtoms \cup {"-width", "-linecap", "-linejoin", "-gem", "24", "-", "."}
                 \cup {"0", "1", "2", "3", "4", "5", "6", "7", "8", "9"}

\* The two predefined entity references the model knows, and the character
\* each stands for.
EntityAtoms == {"&gt;", "&quot;"}
EntityChar(a) == IF a = "&gt;" THEN GT ELSE DQ

(***************************************************************************)
(* The DOM.  An element is a record                                        *)
(*   [type, tagName, namespaceURI, attributes, childNodes, data]           *)
(* with attributes a sequence of [name, value] in document order; a text   *)
(* node has type "text" and its characters in data.  NoNS is the null      *)
(* namespace.                                                              *)
(***************************************************************************)
NoNS == <<>>

ElementNode(tag, ns, attrs, kids) ==
  [type |-> "element", tagName |-> tag, namespaceURI |-> ns,
   attributes |-> attrs, childNodes |-> kids, data |-> <<>>]

TextNode(chars) ==
  [type |-> "text", tagName |-> <<>>, namespaceURI |-> NoNS,
   attributes |-> <<>>, childNodes |-> <<>>, data |-> chars]

Attr(n, v) == [name |-> n, value |-> v]

HasAttribute(el, n) == \E i \in 1..Len(el.attributes) : el.attributes[i].name = n

GetAttribute(el, n) ==
  el.attributes[CHOOSE i \in 1..Len(el.attributes) : el.attributes[i].name = n].value


(***************************************************************************)
(* DOMParser.parseFromString(svgString, "image/svg+xml") (line 18): an XML *)
(* parser over the atoms.  The subset of XML it reads: one root element,   *)
(* white space around it, start tags, end tags and empty-element tags,     *)
(* attributes quoted with " or ', character data, the entity references of *)
(* EntityAtoms, and default namespace declarations (xmlns="...").  Every   *)
(* other text is not well-formed.                                          *)
(***************************************************************************)
Fail == [ok |-> FALSE]

At(t, i) == IF i \in 1..Len(t) THEN t[i] ELSE ""

RECURSIVE SkipS(_, _)
SkipS(t, i) == IF i <= Len(t) /\ t[i] \in WhiteSpace THEN SkipS(t, i + 1) ELSE i

RECURSIVE NameEnd(_, _)
NameEnd(t, i) == IF i <= Len(t) /\ t[i] \in NameAtoms THEN NameEnd(t, i + 1) ELSE i

\* The first position j >= i with t[j] = a, or 0.
RECURSIVE IndexOfFrom(_, _, _)
IndexOfFrom(t, a, i) ==
  IF i > Len(t) THEN 0 ELSE IF t[i] = a THEN i ELSE IndexOfFrom(t, a, i + 1)

\* An attribute value as the parser hands it to the DOM: entity references
\* replaced, and a line break normalised to a space (XML 1.0, 3.3.3).
AttValue(raw) ==
  [j \in 1..Len(raw) |->
     IF raw[j] \in EntityAtoms THEN EntityChar(raw[j])
     ELSE IF raw[j] = NL THEN SP ELSE raw[j]]

\* The attributes of a start tag, from position i (just after the tag name or
\* the previous attribute) to the tag's end.  ParseAttributes skips the white
\* space, AttributeAt reads the name that starts at j, AttributeValue the
\* value whose opening quote is at q1 and whose closing quote is at q2.
RECURSIVE ParseAttributes(_, _, _)

AttributeValue(t, name, q1, q2, acc) ==
  IF \/ At(t, q1) \notin {DQ, SQ}
     \/ q2 = 0
     \/ LT \in Range(SubSeq(t, q1 + 1, q2 - 1))
     \/ LONE \in Range(SubSeq(t, q1 + 1, q2 - 1))
     \/ \E n \in 1..Len(acc) : acc[n].name = name
    THEN Fail
    ELSE ParseAttributes(t, q2 + 1,
           Append(acc, Attr(name, AttValue(SubSeq(t, q1 + 1, q2 - 1)))))

AttributeQuote(t, name, q1, acc) ==
  AttributeValue(t, name, q1, IndexOfFrom(t, At(t, q1), q1 + 1), acc)

AttributeEq(t, name, e, acc) ==
  IF At(t, e) # EQ THEN Fail ELSE AttributeQuote(t, name, SkipS(t, e + 1), acc)

AttributeName(t, j, k, acc) == AttributeEq(t, SubSeq(t, j, k - 1), SkipS(t, k), acc)

AttributeAt(t, i, j, acc) ==
  IF At(t, j) = GT
    THEN [ok |-> TRUE, attrs |-> acc, next |-> j + 1, empty |-> FALSE]
  ELSE IF At(t, j) = SLASH /\ At(t, j + 1) = GT
    THEN [ok |-> TRUE, attrs |-> acc, next |-> j + 2, empty |-> TRUE]
  ELSE IF j = i \/ At(t, j) \notin NameStartAtoms
    THEN Fail
  ELSE AttributeName(t, j, NameEnd(t, j), acc)

ParseAttributes(t, i, acc) == AttributeAt(t, i, SkipS(t, i), acc)

\* Character data joins the text node before it, if there is one.
AppendChar(kids, ch) ==
  IF kids # <<>> /\ kids[Len(kids)].type = "text"
    THEN [kids EXCEPT ![Len(kids)] = TextNode(@.data \o <<ch>>)]
    ELSE Append(kids, TextNode(<<ch>>))

RECURSIVE ParseElement(_, _, _)
RECURSIVE ParseContent(_, _, _, _)

\* The namespace of an element with the attributes attrs: the one its
\* xmlns attribute declares, or else the one in scope.
NamespaceOf(attrs, inherited) ==
  IF \E n \in 1..Len(attrs) : attrs[n].name = <<"xmlns">>
    THEN attrs[CHOOSE n \in 1..Len(attrs) : attrs[n].name = <<"xmlns">>].value
    ELSE inherited

\* The end tag of the element tag, expected at position e, closes it.
ElementEnd(t, tag, ns, attrs, kids, e) ==
  IF /\ e + 1 + Len(tag) <= Len(t)
     /\ SubSeq(t, e + 2, e + 1 + Len(tag)) = tag
     /\ At(t, e + 2 + Len(tag)) \notin NameAtoms
     /\ At(t, SkipS(t, e + 2 + Len(tag))) = GT
    THEN [ok |-> TRUE, node |-> ElementNode(tag, ns, attrs, kids),
          next |-> SkipS(t, e + 2 + Len(tag)) + 1]
    ELSE Fail

ElementContent(t, tag, ns, attrs, c) ==
  IF c.ok THEN ElementEnd(t, tag, ns, attrs, c.kids, c.next) ELSE Fail

ElementBody(t, tag, ns, as) ==
  IF as.empty
    THEN [ok |-> TRUE, node |-> ElementNode(tag, ns, as.attrs, <<>>), next |-> as.next]
    ELSE ElementContent(t, tag, ns, as.attrs, ParseContent(t, as.next, ns, <<>>))

ElementAttributes(t, tag, as, inherited) ==
  IF as.ok THEN ElementBody(t, tag, NamespaceOf(as.attrs, inherited), as) ELSE Fail

ElementTag(t, i, k, inherited) ==
  ElementAttributes(t, SubSeq(t, i + 1, k - 1), ParseAttributes(t, k, <<>>), inherited)

\* The element that starts at position i, in the scope of the default
\* namespace inherited.
ParseElement(t, i, inherited) ==
  IF At(t, i) # LT \/ At(t, i + 1) \notin NameStartAtoms THEN Fail
  ELSE ElementTag(t, i, NameEnd(t, i + 1), inherited)

ContentElement(t, ns, acc, el) ==
  IF el.ok THEN ParseContent(t, el.next, ns, Append(acc, el.node)) ELSE Fail

\* The content of an element from position i up to its end tag.
ParseContent(t, i, ns, acc) ==
  IF i > Len(t) THEN Fail
  ELSE IF t[i] = LT
    THEN IF At(t, i + 1) = SLASH
           THEN [ok |-> TRUE, kids |-> acc, next |-> i]
           ELSE ContentElement(t, ns, acc, ParseElement(t, i, ns))
  ELSE IF t[i] = LONE THEN Fail
  ELSE ParseContent(t, i + 1, ns,
         AppendChar(acc, IF t[i] \in EntityAtoms THEN EntityChar(t[i]) ELSE t[i]))

\* What the parser answers for text that is not well-formed: a document
\* whose only element is parsererror.  (An engine that leaves the part it
\* had read in the document adds the parsererror element to it; either way
\* querySelector('parsererror') finds one.)
ParserErrorDocument ==
  [documentElement |-> ElementNode(<<"parsererror">>, NoNS, <<>>, <<>>)]

\* The document of the text t, whose root element was read as el.
DocumentOf(t, el) ==
  IF el.ok /\ SkipS(t, el.next) = Len(t) + 1
    THEN [documentElement |-> el.node]
    ELSE ParserErrorDocument

parseFromString(svgString) ==
  DocumentOf(svgString, ParseElement(svgString, SkipS(svgString, 1), NoNS))

(***************************************************************************)
(* The DOM operations optimizeSvgBase calls.                               *)
(***************************************************************************)
\* String.prototype.toLowerCase on a tag name: these are the atoms with
\* upper-case letters that can stand in a name.
LowerAtom(a) ==
  CASE a = "SVG" -> "svg"
    [] a = "viewBox" -> "viewbox"
    [] a = "currentColor" -> "currentcolor"
    [] OTHER -> a

toLowerCase(s) == [i \in 1..Len(s) |-> LowerAtom(s[i])]

\* Element.removeAttribute(name): the attribute of that qualified name, if
\* the element has one, leaves the attribute list; the others keep their order.
removeAttribute(el, n) ==
  [el EXCEPT !.attributes = SelectSeq(@, LAMBDA a : a.name # n)]

\* svgElement.querySelectorAll('*').forEach(el => el.removeAttribute(n)):
\* every element below el, at any depth, loses the attribute; el keeps its own.
RECURSIVE RemoveFromDescendants(_, _)
RemoveFromDescendants(el, n) ==
  [el EXCEPT !.childNodes =
     [i \in 1..Len(@) |->
        IF @[i].type = "element"
          THEN RemoveFromDescendants(removeAttribute(@[i], n), n)
          ELSE @[i]]]

\* Whether el or an element below it has the tag name tag.
RECURSIVE HasElementNamed(_, _)
HasElementNamed(el, tag) ==
  \/ el.tagName = tag
  \/ \E i \in 1..Len(el.childNodes) :
       /\ el.childNodes[i].type = "element"
       /\ HasElementNamed(el.childNodes[i], tag)

\* doc.querySelector('parsererror') !== null: a type selector matches a
\* local name, in whatever namespace.
querySelector(doc, tag) == HasElementNamed(doc.documentElement, tag)

(***************************************************************************)
(* XMLSerializer.serializeToString (lines 45-46), the XML serialization    *)
(* algorithm of the DOM Parsing specification for elements without         *)
(* prefixes.  An element whose namespace is not the one in scope gets a    *)
(* default namespace declaration written from its namespaceURI, whether or *)
(* not it has an xmlns attribute; a declaration that repeats the namespace *)
(* in scope is not written.                                                *)
(***************************************************************************)
EscapeAttrValue(v) ==
  [j \in 1..Len(v) |->
     IF v[j] = GT THEN "&gt;" ELSE IF v[j] = DQ THEN "&quot;" ELSE v[j]]

EscapeText(d) == [j \in 1..Len(d) |-> IF d[j] = GT THEN "&gt;" ELSE d[j]]

SerializeAttribute(a) == <<SP>> \o a.name \o <<EQ, DQ>> \o EscapeAttrValue(a.value) \o <<DQ>>

\* A faulty serializer: it writes the attributes last to first.
SerializeAttributesReversed(el, ignoreNamespaceDefinition) ==
  Flatten([i \in 1..Len(el.attributes) |->
     IF /\ el.attributes[Len(el.attributes) + 1 - i].name = <<"xmlns">>
        /\ ignoreNamespaceDefinition
       THEN <<>>
       ELSE SerializeAttribute(el.attributes[Len(el.attributes) + 1 - i])])

SerializeAttributes(el, ignoreNamespaceDefinition) ==
  Flatten([i \in 1..Len(el.attributes) |->
     IF el.attributes[i].name = <<"xmlns">> /\ ignoreNamespaceDefinition
       THEN <<>>
       ELSE SerializeAttribute(el.attributes[i])])

RECURSIVE SerializeNode(_, _)
SerializeNode(node, inheritedNs) ==
  IF node.type = "text" THEN EscapeText(node.data)
  ELSE
    LET ns       == node.namespaceURI
        hasDecl  == HasAttribute(node, <<"xmlns">>)
        \* the namespace in scope is not the element's, and the element's
        \* own xmlns attribute (if any) does not declare it either
        declare  == /\ inheritedNs # ns
                    /\ (~hasDecl \/ GetAttribute(node, <<"xmlns">>) # ns)
        ignore   == IF inheritedNs = ns THEN hasDecl ELSE declare
        open     == <<LT>> \o node.tagName
                    \o (IF declare
                          THEN SerializeAttribute(Attr(<<"xmlns">>, ns))
                          ELSE <<>>)
                    \o SerializeAttributes(node, ignore)
    IN IF node.childNodes = <<>>
         THEN open \o <<SLASH, GT>>
         ELSE open \o <<GT>>
              \o Flatten([i \in 1..Len(node.childNodes) |->
                            SerializeNode(node.childNodes[i], ns)])
              \o <<LT, SLASH>> \o node.tagName \o <<GT>>

serializeToString(svgElement) == SerializeNode(svgElement, NoNS)

(***************************************************************************)
(* optimizeSvgBase (lines 12-51).                                          *)
(***************************************************************************)
\* String.prototype.trim
RECURSIVE trim(_)
trim(s) ==
  IF s = <<>> THEN s
  ELSE IF Head(s) \in WhiteSpace THEN trim(Tail(s))
  ELSE IF s[Len(s)] \in WhiteSpace THEN trim(SubSeq(s, 1, Len(s) - 1))
  ELSE s

\* Lines 26-36: the three flags that act on the root element alone.
RemoveRootAttributes(svgElement, options) ==
  LET e1 == IF options.removeXmlns THEN removeAttribute(svgElement, <<"xmlns">>)
            ELSE svgElement
      e2 == IF options.removeWidth THEN removeAttribute(e1, <<"width">>) ELSE e1
  IN IF options.removeHeight THEN removeAttribute(e2, <<"height">>) ELSE e2

\* A faulty lines 38-43: the loop over the descendants is missing.
RemoveClassesFromRootOnly(svgElement, options) ==
  IF options.removeClasses THEN removeAttribute(svgElement, <<"class">>)
  ELSE svgElement

\* Lines 38-43: removeClasses acts on every descendant and on the root.
RemoveClasses(svgElement, options) ==
  IF options.removeClasses
    THEN removeAttribute(RemoveFromDescendants(svgElement, <<"class">>), <<"class">>)
    ELSE svgElement

\* Line 21: the document is taken for an SVG document.
IsSvgDocument(doc) ==
  /\ toLowerCase(doc.documentElement.tagName) = <<"svg">>
  /\ ~querySelector(doc, <<"parsererror">>)

\* Neither parseFromString nor serializeToString throws on a string, so the
\* catch of lines 47-50, which returns svgString as well, is not entered.
\* A faulty lines 21-24: an invalid document gives '' and not svgString.
OptimizeDocumentRejecting(svgString, doc, options) ==
  IF ~IsSvgDocument(doc) THEN <<>>
  ELSE serializeToString(
         RemoveClasses(RemoveRootAttributes(doc.documentElement, options), options))

\* Lines 21-46, with doc the document parseFromString gave (line 18).
OptimizeDocument(svgString, doc, options) ==
  IF ~IsSvgDocument(doc) THEN svgString
  ELSE serializeToString(
         RemoveClasses(RemoveRootAttributes(doc.documentElement, options), options))

optimizeSvgBase(svgString, options) ==
  IF trim(svgString) = <<>> THEN <<>>
  ELSE OptimizeDocument(svgString, parseFromString(svgString), options)

(***************************************************************************)
(* parsedSizes (lines 234-239).  A size string is a sequence of atoms of   *)
(* one character each.                                                     *)
(***************************************************************************)
COMMA == ","

Digits == <<"0", "1", "2", "3", "4", "5", "6", "7", "8", "9">>

IsDigit(c) == \E d \in 1..10 : Digits[d] = c

DigitValue(c) == (CHOOSE d \in 1..10 : Digits[d] = c) - 1

\* String.prototype.split(','): the pieces between the commas, empty pieces
\* included; a string without a comma is its own single piece.
RECURSIVE Split(_, _)
Split(s, cur) ==
  IF s = <<>> THEN <<cur>>
  ELSE IF Head(s) = COMMA THEN <<cur>> \o Split(Tail(s), <<>>)
  ELSE Split(Tail(s), Append(cur, Head(s)))

split(s) == Split(s, <<>>)

\* The value of the longest prefix of digits of s, continuing from acc;
\* parseInt stops at the first character that is not a digit.
RECURSIVE DigitsPrefix(_, _)
DigitsPrefix(s, acc) ==
  IF s # <<>> /\ IsDigit(Head(s))
    THEN DigitsPrefix(Tail(s), (10 * acc) + DigitValue(Head(s)))
    ELSE acc

NaN == [nan |-> TRUE, value |-> 0]
Number(n) == [nan |-> FALSE, value |-> n]
isNaN(n) == n.nan

\* parseInt(string, 10): leading white space is skipped, a sign is read,
\* then as many digits as there are; NaN when there is not even one.
parseInt(string) ==
  LET s      == SubSeq(string, SkipS(string, 1), Len(string))
      signed == s # <<>> /\ Head(s) \in {"-", "+"}
      body   == IF signed THEN Tail(s) ELSE s
  IN IF body = <<>> \/ ~IsDigit(Head(body)) THEN NaN
     ELSE Number((IF signed /\ Head(s) = "-" THEN -1 ELSE 1) * DigitsPrefix(body, 0))

\* Line 238: the numbers that go into the list.
KeepSize(n) == ~isNaN(n) /\ n.value > 0

ComputeParsedSizes(outputSizes) ==
  LET tokens == split(outputSizes)
      parsed == [i \in 1..Len(tokens) |-> parseInt(trim(tokens[i]))]
      kept   == SelectSeq(parsed, KeepSize)
  IN [i \in 1..Len(kept) |-> kept[i].value]

(***************************************************************************)
(* previewRenderSvg (lines 250-260).                                       *)
(***************************************************************************)
\* svgTagRegex = /<svg([^>]*?)>/ : the leftmost "<svg" that a ">" follows,
\* up to the first ">" after it.  [start, end] are the positions of "<" and
\* ">", 0 when the text has no match.
SvgTagMatch(t) ==
  LET starts == {i \in 1..Len(t) - 2 :
                   /\ t[i] = LT
                   /\ t[i + 1] = "svg"
                   /\ IndexOfFrom(t, GT, i + 2) # 0}
  IN IF starts = {} THEN [start |-> 0, end |-> 0]
     ELSE [start |-> Min(starts), end |-> IndexOfFrom(t, GT, Min(starts) + 2)]

\* String.prototype.replace(/name="[^"]*"/, ''): the leftmost name="..."
\* leaves the string.
RemoveFirstQuoted(a, name) ==
  LET starts == {p \in 1..Len(a) - 3 :
                   /\ a[p] = name
                   /\ a[p + 1] = EQ
                   /\ a[p + 2] = DQ
                   /\ IndexOfFrom(a, DQ, p + 3) # 0}
  IN IF starts = {} THEN a
     ELSE LET p == Min(starts)
              q == IndexOfFrom(a, DQ, p + 3)
          IN SubSeq(a, 1, p - 1) \o SubSeq(a, q + 1, Len(a))

\* The replacement patterns String.prototype.replace expands in a
\* replacement string: "$&" is the matched text and "$1" the first group.
GetSubstitution(replacement, matched, group1) ==
  Flatten([i \in 1..Len(replacement) |->
     IF replacement[i] = "$&" THEN matched
     ELSE IF replacement[i] = "$1" THEN group1
     ELSE <<replacement[i]>>])

\* A faulty line 254: a text without a match gives '' and not the text.
PreviewRenderSvgEmptyWithoutMatch(baseOptimizedSvg, previewColor) ==
  IF baseOptimizedSvg = <<>> \/ SvgTagMatch(baseOptimizedSvg).start = 0 THEN <<>>
  ELSE
    LET m          == SvgTagMatch(baseOptimizedSvg)
        group1     == SubSeq(baseOptimizedSvg, m.start + 2, m.end - 1)
        attributes == RemoveFirstQuoted(RemoveFirstQuoted(group1, "fill"), "stroke")
        newSvgTag  == <<LT, "svg">> \o attributes \o <<SP, "fill", EQ, DQ>>
                      \o previewColor \o <<DQ, GT>>
    IN SubSeq(baseOptimizedSvg, 1, m.start - 1)
       \o GetSubstitution(newSvgTag,
                          SubSeq(baseOptimizedSvg, m.start, m.end), group1)
       \o SubSeq(baseOptimizedSvg, m.end + 1, Len(baseOptimizedSvg))

ComputePreviewRenderSvg(baseOptimizedSvg, previewColor) ==
  IF baseOptimizedSvg = <<>> THEN <<>>
  ELSE
    LET m == SvgTagMatch(baseOptimizedSvg) IN
    IF m.start = 0 THEN baseOptimizedSvg
    ELSE
      LET group1     == SubSeq(baseOptimizedSvg, m.start + 2, m.end - 1)
          attributes == RemoveFirstQuoted(RemoveFirstQuoted(group1, "fill"), "stroke")
          newSvgTag  == <<LT, "svg">> \o attributes \o <<SP, "fill", EQ, DQ>>
                        \o previewColor \o <<DQ, GT>>
      IN SubSeq(baseOptimizedSvg, 1, m.start - 1)
         \o GetSubstitution(newSvgTag,
                            SubSeq(baseOptimizedSvg, m.start, m.end), group1)
         \o SubSeq(baseOptimizedSvg, m.end + 1, Len(baseOptimizedSvg))

\* Lines 262-264.
ComputeOutputSvg(baseOptimizedSvg, previewRenderSvg, applyPreviewColor) ==
  IF applyPreviewColor THEN previewRenderSvg ELSE baseOptimizedSvg

(***************************************************************************)
(* The characters of the atoms, as UTF-16 code units.                      *)
(***************************************************************************)
\* The printable ASCII characters, from the space (32) to the tilde (126);
\* the grave accent (96) is in no atom and only holds its place.
Printable ==
  <<" ", "!", "\"", "#", "$", "%", "&", "'", "(", ")", "*", "+",
    ",", "-", ".", "/", "0", "1", "2", "3", "4", "5", "6", "7",
    "8", "9", ":", ";", "<", "=", ">", "?", "@", "A", "B", "C",
    "D", "E", "F", "G", "H", "I", "J", "K", "L", "M", "N", "O",
    "P", "Q", "R", "S", "T", "U", "V", "W", "X", "Y", "Z", "[",
    "\\", "]", "^", "_", "(grave)", "a", "b", "c", "d", "e", "f", "g",
    "h", "i", "j", "k", "l", "m", "n", "o", "p", "q", "r", "s",
    "t", "u", "v", "w", "x", "y", "z", "{", "|", "}", "~">>

\* The code of each printable character.
AsciiCodes ==
  [c \in Range(Printable) |-> (CHOOSE i \in 1..Len(Printable) : Printable[i] = c) + 31]

AsciiCode(c) == AsciiCodes[c]

\* The atoms of more than one character, spelled out.
Spell(a) ==
  CASE a = "svg" ->
         <<"s", "v", "g">>
    [] a = "SVG" ->
         <<"S", "V", "G">>
    [] a = "path" ->
         <<"p", "a", "t", "h">>
    [] a = "parsererror" ->
         <<"p", "a", "r", "s", "e", "r", "e", "r", "r", "o", "r">>
    [] a = "xmlns" ->
         <<"x", "m", "l", "n", "s">>
    [] a = "width" ->
         <<"w", "i", "d", "t", "h">>
    [] a = "height" ->
         <<"h", "e", "i", "g", "h", "t">>
    [] a = "class" ->
         <<"c", "l", "a", "s", "s">>
    [] a = "fill" ->
         <<"f", "i", "l", "l">>
    [] a = "stroke" ->
         <<"s", "t", "r", "o", "k", "e">>
    [] a = "data-" ->
         <<"d", "a", "t", "a", "-">>
    [] a = "viewBox" ->
         <<"v", "i", "e", "w", "B", "o", "x">>
    [] a = "none" ->
         <<"n", "o", "n", "e">>
    [] a = "red" ->
         <<"r", "e", "d">>
    [] a = "abc" ->
         <<"a", "b", "c">>
    [] a = "-width" ->
         <<"-", "w", "i", "d", "t", "h">>
    [] a = "24" ->
         <<"2", "4">>
    [] a = "http://www.w3.org/2000/svg" ->
         <<"h", "t", "t", "p", ":", "/", "/", "w", "w", "w", ".", "w", "3", ".", "o", "r", "g", "/", "2", "0", "0", "0", "/", "s", "v", "g">>
    [] a = "&gt;" ->
         <<"&", "g", "t", ";">>
    [] a = "&quot;" ->
         <<"&", "q", "u", "o", "t", ";">>
    [] a = "#3b82f6" ->
         <<"#", "3", "b", "8", "2", "f", "6">>
    [] a = "#ff0000" ->
         <<"#", "f", "f", "0", "0", "0", "0">>
    [] a = "$&" ->
         <<"$", "&">>
    [] a = "$1" ->
         <<"$", "1">>
    [] a = "currentColor" ->
         <<"c", "u", "r", "r", "e", "n", "t", "C", "o", "l", "o", "r">>
    [] a = "round" ->
         <<"r", "o", "u", "n", "d">>
    [] a = "lucide" ->
         <<"l", "u", "c", "i", "d", "e">>
    [] a = "-linecap" ->
         <<"-", "l", "i", "n", "e", "c", "a", "p">>
    [] a = "-linejoin" ->
         <<"-", "l", "i", "n", "e", "j", "o", "i", "n">>
    [] a = "-gem" ->
         <<"-", "g", "e", "m">>
    [] a = "M6 3h12l4 6-10 13L2 9Z" ->
         <<"M", "6", " ", "3", "h", "1", "2", "l", "4", " ", "6", "-", "1", "0", " ", "1", "3", "L", "2", " ", "9", "Z">>
    [] a = "M12 22V9" ->
         <<"M", "1", "2", " ", "2", "2", "V", "9">>
    [] a = "m3.5 8.5 17 0" ->
         <<"m", "3", ".", "5", " ", "8", ".", "5", " ", "1", "7", " ", "0">>
    [] a = "M2 9h20" ->
         <<"M", "2", " ", "9", "h", "2", "0">>
    [] OTHER -> <<a>>

SpelledCodeUnits(a) ==
  CASE a = NL -> <<10>>
    [] a = "\\u00E9" -> <<233>>
    [] a = "\\u20AC" -> <<8364>>
    [] a = "\\uD83D\\uDE00" -> <<55357, 56832>>
    [] a = LONE -> <<55357>>
    [] OTHER -> [i \in 1..Len(Spell(a)) |-> AsciiCode(Spell(a)[i])]

\* Every atom a text of the model is made of.
Atoms ==
  Range(Printable) \cup NameAtoms \cup EntityAtoms
    \cup {NL, LONE, SVGNS, "#3b82f6", "#ff0000", "$&", "$1",
          "M6 3h12l4 6-10 13L2 9Z", "M12 22V9", "m3.5 8.5 17 0", "M2 9h20"}

CodeUnitsOfAtom == [a \in Atoms |-> SpelledCodeUnits(a)]

CodeUnits(a) == CodeUnitsOfAtom[a]

\* A text as the JavaScript string it stands for.
StringOf(t) == Flatten([i \in 1..Len(t) |-> CodeUnits(t[i])])

(***************************************************************************)
(* svgPreviewUrl (lines 266-275):                                          *)
(*   btoa(unescape(encodeURIComponent(previewRenderSvg)))                  *)
(* on strings of code units.  A function that throws answers Threw.        *)
(***************************************************************************)
Threw == [threw |-> TRUE, value |-> <<>>]
Returned(v) == [threw |-> FALSE, value |-> v]

IsHighSurrogate(u) == u >= 55296 /\ u <= 56319
IsLowSurrogate(u) == u >= 56320 /\ u <= 57343

\* The code units of "0123456789ABCDEF".
HexDigit(n) == IF n < 10 THEN 48 + n ELSE 55 + n

IsHexDigit(c) == (c >= 48 /\ c <= 57) \/ (c >= 65 /\ c <= 70) \/ (c >= 97 /\ c <= 102)

HexValue(c) == IF c <= 57 THEN c - 48 ELSE IF c <= 70 THEN c - 55 ELSE c - 87

\* A-Z a-z 0-9 - _ . ! ~ * ' ( )
IsUriUnreserved(u) ==
  \/ (u >= 65 /\ u <= 90) \/ (u >= 97 /\ u <= 122) \/ (u >= 48 /\ u <= 57)
  \/ u \in {45, 95, 46, 33, 126, 42, 39, 40, 41}

\* The UTF-8 octets of a code point.
Utf8(cp) ==
  IF cp < 128 THEN <<cp>>
  ELSE IF cp < 2048 THEN <<192 + (cp \div 64), 128 + (cp % 64)>>
  ELSE IF cp < 65536
    THEN <<224 + (cp \div 4096), 128 + ((cp \div 64) % 64), 128 + (cp % 64)>>
  ELSE <<240 + (cp \div 262144), 128 + ((cp \div 4096) % 64),
         128 + ((cp \div 64) % 64), 128 + (cp % 64)>>

PercentEncode(octets) ==
  Flatten([i \in 1..Len(octets) |->
             <<37, HexDigit(octets[i] \div 16), HexDigit(octets[i] % 16)>>])

\* encodeURIComponent: an unreserved character stands for itself, any other
\* code point becomes its UTF-8 octets as %XX (a surrogate pair is one code
\* point); a surrogate without its partner throws URIError.
PairedHigh(s, i) == IsHighSurrogate(s[i]) /\ i < Len(s) /\ IsLowSurrogate(s[i + 1])
PairedLow(s, i) == IsLowSurrogate(s[i]) /\ i > 1 /\ PairedHigh(s, i - 1)

encodeURIComponent(s) ==
  IF \E i \in 1..Len(s) :
       \/ IsHighSurrogate(s[i]) /\ ~PairedHigh(s, i)
       \/ IsLowSurrogate(s[i]) /\ ~PairedLow(s, i)
    THEN Threw
    ELSE Returned(Flatten([i \in 1..Len(s) |->
           IF IsUriUnreserved(s[i]) THEN <<s[i]>>
           ELSE IF IsHighSurrogate(s[i])
             THEN PercentEncode(
                    Utf8(((s[i] - 55296) * 1024) + (s[i + 1] - 56320) + 65536))
           ELSE IF IsLowSurrogate(s[i]) THEN <<>>
           ELSE PercentEncode(Utf8(s[i]))]))

\* unescape: %uXXXX and %XX become the code unit they name; every other
\* character stands for itself.  The characters an escape takes after its
\* "%" are never a "%", so every "%" that hexadecimal digits follow starts
\* an escape.
EscapeLength(s, i) ==
  IF s[i] # 37 THEN 0
  ELSE IF /\ i + 5 <= Len(s) /\ s[i + 1] = 117
          /\ \A k \in i + 2..i + 5 : IsHexDigit(s[k])
    THEN 6
  ELSE IF i + 2 <= Len(s) /\ IsHexDigit(s[i + 1]) /\ IsHexDigit(s[i + 2]) THEN 3
  ELSE 0

\* A faulty line 269: unescape is left out, btoa gets the percent-encoding.
unescapeLeftOut(s) == s

unescape(s) ==
  Flatten([i \in 1..Len(s) |->
    IF EscapeLength(s, i) = 6
      THEN <<(4096 * HexValue(s[i + 2])) + (256 * HexValue(s[i + 3]))
             + (16 * HexValue(s[i + 4])) + HexValue(s[i + 5])>>
    ELSE IF EscapeLength(s, i) = 3
      THEN <<(16 * HexValue(s[i + 1])) + HexValue(s[i + 2])>>
    ELSE IF \E j \in 1..5 : j < i /\ j < EscapeLength(s, i - j) THEN <<>>
    ELSE <<s[i]>>])

\* The base64 alphabet.
Base64Chars ==
  <<"A", "B", "C", "D", "E", "F", "G", "H", "I", "J", "K", "L", "M", "N", "O", "P",
    "Q", "R", "S", "T", "U", "V", "W", "X", "Y", "Z", "a", "b", "c", "d", "e", "f",
    "g", "h", "i", "j", "k", "l", "m", "n", "o", "p", "q", "r", "s", "t", "u", "v",
    "w", "x", "y", "z", "0", "1", "2", "3", "4", "5", "6", "7", "8", "9", "+", "/">>

PAD == "="

\* The four characters of the group of up to three octets b.
Base64Group(b) ==
  IF Len(b) = 1
    THEN <<Base64Chars[(b[1] \div 4) + 1], Base64Chars[((b[1] % 4) * 16) + 1],
           PAD, PAD>>
  ELSE IF Len(b) = 2
    THEN <<Base64Chars[(b[1] \div 4) + 1],
           Base64Chars[((b[1] % 4) * 16) + (b[2] \div 16) + 1],
           Base64Chars[((b[2] % 16) * 4) + 1], PAD>>
  ELSE <<Base64Chars[(b[1] \div 4) + 1],
         Base64Chars[((b[1] % 4) * 16) + (b[2] \div 16) + 1],
         Base64Chars[((b[2] % 16) * 4) + (b[3] \div 64) + 1],
         Base64Chars[(b[3] % 64) + 1]>>

Base64(b) ==
  Flatten([g \in 1..((Len(b) + 2) \div 3) |->
             Base64Group(SubSeq(b, (3 * g) - 2, IF 3 * g < Len(b) THEN 3 * g ELSE Len(b)))])

\* btoa: the base64 of a string of characters below 256; it throws
\* InvalidCharacterError on any other string.
btoa(s) ==
  IF \E i \in 1..Len(s) : s[i] > 255 THEN Threw ELSE Returned(Base64(s))

DataUrlPrefix == "data:image/svg+xml;base64,"

\* The try block of lines 268-270; the catch of lines 271-274 returns ''.
ComputeSvgPreviewUrl(previewRenderSvg) ==
  IF previewRenderSvg = <<>> THEN <<>>
  ELSE
    LET encoded == encodeURIComponent(StringOf(previewRenderSvg)) IN
    IF encoded.threw THEN <<>>
    ELSE LET base64 == btoa(unescape(encoded.value)) IN
         IF base64.threw THEN <<>>
         ELSE <<DataUrlPrefix>> \o base64.value

(***************************************************************************)
(* The App component (lines 202-398).  Its state: inputSvg, options,       *)
(* isSettingsOpen, copyStatus and singlePreviewSize (theme only styles the *)
(* page and is left out).  The values it derives on every render are       *)
(* variables too, each holding what its useMemo or useCallback cell holds: *)
(* copyText and downloadText are the outputSvg that the current handleCopy *)
(* and handleDownload closures captured.  sliderValue is the input of the  *)
(* slider's last change event (line 359) for the size list in force: <<>>  *)
(* while the slider has not been moved since that list was set, else       *)
(* << the value of the event >>.                                           *)
(***************************************************************************)
VARIABLES inputSvg, options, isSettingsOpen, copyStatus, singlePreviewSize,
          parsedSizes, baseOptimizedSvg, previewRenderSvg, outputSvg,
          svgPreviewUrl, copyText, downloadText,
          phase, sliderValue

state == <<inputSvg, options, isSettingsOpen, copyStatus, singlePreviewSize>>
derived == <<parsedSizes, baseOptimizedSvg, previewRenderSvg, outputSvg,
             svgPreviewUrl, copyText, downloadText>>
vars == <<state, derived, phase, sliderValue>>

\* defaultSvg (lines 5-10).
DefaultPath(d) == <<NL, SP, SP, LT, "path", SP, "d", EQ, DQ, d, DQ, SLASH, GT>>

defaultSvg ==
  <<LT, "svg", SP, "xmlns", EQ, DQ, SVGNS, DQ,
    SP, "width", EQ, DQ, "24", DQ, SP, "height", EQ, DQ, "24", DQ,
    SP, "viewBox", EQ, DQ, "0", SP, "0", SP, "24", SP, "24", DQ,
    SP, "fill", EQ, DQ, "none", DQ, SP, "stroke", EQ, DQ, "currentColor", DQ,
    SP, "stroke", "-width", EQ, DQ, "2", DQ,
    SP, "stroke", "-linecap", EQ, DQ, "round", DQ,
    SP, "stroke", "-linejoin", EQ, DQ, "round", DQ,
    SP, "class", EQ, DQ, "lucide", SP, "lucide", "-gem", DQ, GT>>
  \o DefaultPath("M6 3h12l4 6-10 13L2 9Z") \o DefaultPath("M12 22V9")
  \o DefaultPath("m3.5 8.5 17 0") \o DefaultPath("M2 9h20")
  \o <<NL, LT, SLASH, "svg", GT>>

\* The initial options (lines 204-212).
DefaultOptions ==
  [removeClasses |-> TRUE, removeWidth |-> TRUE, removeHeight |-> TRUE,
   removeXmlns |-> FALSE, previewColor |-> <<"#3b82f6">>,
   applyPreviewColor |-> FALSE,
   outputSizes |-> <<"2", "4", COMMA, SP, "3", "2", COMMA, SP, "4", "8">>]

\* useState(24) (line 217).
DefaultSinglePreviewSize == 24

\* Line 247: the options optimizeSvgBase is given.
BaseOptions(o) ==
  [removeClasses |-> o.removeClasses, removeWidth |-> o.removeWidth,
   removeHeight |-> o.removeHeight, removeXmlns |-> o.removeXmlns]

(***************************************************************************)
(* One render.  On the first render (phase "constructed") every useMemo   *)
(* cell is computed; on a later one a cell is computed again when one of   *)
(* its dependencies is not the value of the render before, and otherwise   *)
(* keeps what it holds.                                                    *)
(***************************************************************************)
FirstRender == phase = "constructed"

\* Line 239
ParsedSizesDepsChanged == options'.outputSizes # options.outputSizes

\* Line 248: baseOptions is a new object on every render (line 247), so
\* this cell is computed on every render.
BaseOptimizedSvgDepsChanged == TRUE

\* A faulty line 260: options.previewColor is missing from the dependencies.
PreviewRenderSvgDepsWithoutColor == baseOptimizedSvg' # baseOptimizedSvg

\* Line 260
PreviewRenderSvgDepsChanged ==
  \/ baseOptimizedSvg' # baseOptimizedSvg
  \/ options'.previewColor # options.previewColor

\* Line 264
OutputSvgDepsChanged ==
  \/ baseOptimizedSvg' # baseOptimizedSvg
  \/ previewRenderSvg' # previewRenderSvg
  \/ options'.applyPreviewColor # options.applyPreviewColor

\* Line 275
SvgPreviewUrlDepsChanged == previewRenderSvg' # previewRenderSvg

\* Lines 282 and 294
HandlerDepsChanged == outputSvg' # outputSvg

\* The render of the state inputSvg', options'.
Render ==
  /\ parsedSizes' = IF FirstRender \/ ParsedSizesDepsChanged
                      THEN ComputeParsedSizes(options'.outputSizes)
                      ELSE parsedSizes
  /\ baseOptimizedSvg' = IF FirstRender \/ BaseOptimizedSvgDepsChanged
                           THEN optimizeSvgBase(inputSvg', BaseOptions(options'))
                           ELSE baseOptimizedSvg
  /\ previewRenderSvg' = IF FirstRender \/ PreviewRenderSvgDepsChanged
                           THEN ComputePreviewRenderSvg(baseOptimizedSvg',
                                                        options'.previewColor)
                           ELSE previewRenderSvg
  /\ outputSvg' = IF FirstRender \/ OutputSvgDepsChanged
                    THEN ComputeOutputSvg(baseOptimizedSvg', previewRenderSvg',
                                          options'.applyPreviewColor)
                    ELSE outputSvg
  /\ svgPreviewUrl' = IF FirstRender \/ SvgPreviewUrlDepsChanged
                        THEN ComputeSvgPreviewUrl(previewRenderSvg')
                        ELSE svgPreviewUrl
  /\ copyText' = IF FirstRender \/ HandlerDepsChanged THEN outputSvg' ELSE copyText
  /\ downloadText' = IF FirstRender \/ HandlerDepsChanged THEN outputSvg' ELSE downloadText

\* The effect of lines 241-245, run after the render that followed an
\* update that set singlePreviewSize to size: it sets the state again when
\* the list has one size and that is not singlePreviewSize, and the render
\* that follows finds nothing more to do.
SeedSinglePreviewSize(size) ==
  singlePreviewSize' =
    IF Len(parsedSizes') = 1 /\ size # parsedSizes'[1] THEN parsedSizes'[1] ELSE size

(***************************************************************************)
(* The steps of the component.  Each is a whole update: the handler's      *)
(* setState, the render that follows, and the effect of lines 241-245.     *)
(***************************************************************************)
Update(in, o, size) ==
  /\ inputSvg' = in
  /\ options' = o
  /\ Render
  /\ SeedSinglePreviewSize(size)

\* The first render of the component.
Mount ==
  /\ phase = "constructed"
  /\ phase' = "mounted"
  /\ Update(inputSvg, options, singlePreviewSize)
  /\ UNCHANGED <<isSettingsOpen, copyStatus, sliderValue>>

\* Line 320: the input textarea's onChange.
SetInputSvg(value) ==
  /\ phase = "mounted"
  /\ Update(value, options, singlePreviewSize)
  /\ UNCHANGED <<isSettingsOpen, copyStatus, phase, sliderValue>>

\* Line 306: the settings button.
ToggleSettings ==
  /\ phase = "mounted"
  /\ isSettingsOpen' = ~isSettingsOpen
  /\ Update(inputSvg, options, singlePreviewSize)
  /\ UNCHANGED <<copyStatus, phase, sliderValue>>

\* Lines 97, 110 and 314: the popover's onClose.
CloseSettings ==
  /\ phase = "mounted"
  /\ isSettingsOpen
  /\ isSettingsOpen' = FALSE
  /\ Update(inputSvg, options, singlePreviewSize)
  /\ UNCHANGED <<copyStatus, phase, sliderValue>>

Switches ==
  {"removeClasses", "removeWidth", "removeHeight", "removeXmlns", "applyPreviewColor"}

\* Lines 116-120: a switch of the settings popover, onChange(!checked).
ToggleSwitch(field) ==
  /\ phase = "mounted"
  /\ isSettingsOpen
  /\ Update(inputSvg, [options EXCEPT ![field] = ~@], singlePreviewSize)
  /\ UNCHANGED <<isSettingsOpen, copyStatus, phase, sliderValue>>

\* Line 124: the Preview Sizes input of the settings popover.
SetOutputSizes(value) ==
  /\ phase = "mounted"
  /\ isSettingsOpen
  /\ Update(inputSvg, [options EXCEPT !.outputSizes = value], singlePreviewSize)
  /\ sliderValue' = <<>>
  /\ UNCHANGED <<isSettingsOpen, copyStatus, phase>>

\* Line 329: the colour input of the preview panel.
SetPreviewColor(value) ==
  /\ phase = "mounted"
  /\ Update(inputSvg, [options EXCEPT !.previewColor = value], singlePreviewSize)
  /\ UNCHANGED <<isSettingsOpen, copyStatus, phase, sliderValue>>

\* The range input's min and max (lines 355-356).
SliderMin == 8
SliderMax == 256

\* Lines 332-368: what the preview panel shows.  "invalid" is the message
\* of line 368, "message" the guidance of line 365, "single" the preview
\* with the slider (lines 344-363), "multi" one preview per size (lines
\* 335-342).
PreviewMode ==
  IF svgPreviewUrl = <<>> THEN "invalid"
  ELSE IF Len(parsedSizes) > 1 THEN "multi"
  ELSE IF Len(parsedSizes) = 1 THEN "single"
  ELSE "message"

\* The sizes of the images the panel shows (lines 338 and 346).
PreviewSizes ==
  CASE PreviewMode = "multi" -> parsedSizes
    [] PreviewMode = "single" -> <<singlePreviewSize>>
    [] OTHER -> <<>>

\* Lines 353-361: the slider, rendered when there is a preview URL and the
\* list has exactly one size (lines 332-343).
SetSinglePreviewSize(value) ==
  /\ phase = "mounted"
  /\ PreviewMode = "single"
  /\ value \in SliderMin..SliderMax
  /\ Update(inputSvg, options, value)
  /\ sliderValue' = <<value>>
  /\ UNCHANGED <<isSettingsOpen, copyStatus, phase>>

\* Lines 277-282: writeText(outputSvg) resolves and the status is set.
HandleCopy ==
  /\ phase = "mounted"
  /\ copyStatus' = "copied"
  /\ Update(inputSvg, options, singlePreviewSize)
  /\ UNCHANGED <<isSettingsOpen, phase, sliderValue>>

\* Line 280: the timeout set by handleCopy.
CopyStatusTimeout ==
  /\ phase = "mounted"
  /\ copyStatus = "copied"
  /\ copyStatus' = "idle"
  /\ Update(inputSvg, options, singlePreviewSize)
  /\ UNCHANGED <<isSettingsOpen, phase, sliderValue>>

\* The user copies the output panel's text (line 388) and pastes it into
\* the input textarea (line 320), once.
PasteOutputSvg ==
  /\ phase = "mounted"
  /\ phase' = "pasted"
  /\ Update(outputSvg, options, singlePreviewSize)
  /\ UNCHANGED <<isSettingsOpen, copyStatus, sliderValue>>

\* The state useState gives the component before its first render.
Constructed(in, o, size) ==
  /\ inputSvg = in
  /\ options = o
  /\ singlePreviewSize = size
  /\ isSettingsOpen = FALSE
  /\ copyStatus = "idle"
  /\ parsedSizes = <<>>
  /\ baseOptimizedSvg = <<>>
  /\ previewRenderSvg = <<>>
  /\ outputSvg = <<>>
  /\ svgPreviewUrl = <<>>
  /\ copyText = <<>>
  /\ downloadText = <<>>
  /\ phase = "constructed"
  /\ sliderValue = <<>>

\* Lines 284-294: handleDownload saves outputSvg and sets no state.
HandleDownload ==
  /\ phase = "mounted"
  /\ UNCHANGED vars

(***************************************************************************)
(* The texts a user gives the component.                                   *)
(***************************************************************************)
\* The number of attributes on the root of a generated text.
MaxRootAttrs == 2
\* The length of a generated size string.
MaxSizesLen == 3

\* An element written out.  The plain style is the serializer's own; the
\* loose style quotes with ', puts white space around = and before >,
\* writes the attributes in the opposite order and never uses the
\* empty-element tag.
WriteAttribute(a, loose) ==
  IF loose THEN <<SP, NL>> \o a.name \o <<SP, EQ, SP, SQ>> \o a.value \o <<SQ>>
  ELSE <<SP>> \o a.name \o <<EQ, DQ>> \o a.value \o <<DQ>>

WriteElement(tag, attrs, body, loose) ==
  LET n    == Len(attrs)
      list == Flatten([i \in 1..n |->
                WriteAttribute(attrs[IF loose THEN n + 1 - i ELSE i], loose)])
  IN IF body = <<>> /\ ~loose
       THEN <<LT>> \o tag \o list \o <<SLASH, GT>>
       ELSE <<LT>> \o tag \o list \o (IF loose THEN <<SP>> ELSE <<>>) \o <<GT>>
            \o body \o <<LT, SLASH>> \o tag \o (IF loose THEN <<NL>> ELSE <<>>)
            \o <<GT>>

\* The attributes a generated root takes its own from, in this order.
RootAttrPool ==
  <<Attr(<<"xmlns">>, <<SVGNS>>),
    Attr(<<"width">>, <<"24">>),
    Attr(<<"height">>, <<"24">>),
    Attr(<<"class">>, <<"a">>),
    Attr(<<"data-", "fill">>, <<"x">>),
    Attr(<<"fill">>, <<"none">>),
    Attr(<<"stroke">>, <<"red">>),
    Attr(<<"stroke", "-width">>, <<"2">>)>>

RootAttrLists ==
  {LET idx == SelectSeq([i \in 1..Len(RootAttrPool) |-> i], LAMBDA i : i \in S)
   IN [k \in 1..Len(idx) |-> RootAttrPool[idx[k]]] :
     S \in {T \in SUBSET (1..Len(RootAttrPool)) : Cardinality(T) <= MaxRootAttrs}}

\* The elements a generated text has below its root.
TextLeaf == <<"x", "\\u00E9", "\\uD83D\\uDE00", "\\u20AC", GT>>

InnerPath(loose) ==
  WriteElement(<<"path">>,
               <<Attr(<<"xmlns">>, <<SVGNS>>), Attr(<<"width">>, <<"24">>),
                 Attr(<<"height">>, <<"24">>), Attr(<<"class">>, <<"c">>)>>,
               <<>>, loose)

InnerSvg(loose) ==
  WriteElement(<<"svg">>,
               <<Attr(<<"fill">>, <<"red">>), Attr(<<"stroke">>, <<"red">>),
                 Attr(<<"class">>, <<"c">>)>>,
               InnerPath(loose), loose)

InnerGroup(loose) ==
  WriteElement(<<"g">>, <<Attr(<<"class">>, <<"b">>), Attr(<<"x">>, <<GT>>)>>,
               TextLeaf \o InnerSvg(loose), loose)

\* The contents of a generated root: nothing, text, one element, and
\* elements nested two deep beside a sibling.
Bodies(loose) ==
  {<<>>, TextLeaf, InnerPath(loose),
   InnerGroup(loose) \o WriteElement(<<"g">>, <<Attr(<<"class">>, <<"b">>)>>, <<>>, loose)}

\* Well-formed documents whose root is svg or SVG, in one style.
SvgTextsIn(loose) ==
  {(IF loose THEN <<NL, SP>> ELSE <<>>) \o WriteElement(<<tag>>, attrs, body, loose)
     \o (IF loose THEN <<NL>> ELSE <<>>) :
     tag \in {"svg", "SVG"}, attrs \in RootAttrLists, body \in Bodies(loose)}

SvgTexts == SvgTextsIn(FALSE) \cup SvgTextsIn(TRUE)

BlankTexts == {<<>>, <<SP>>, <<NL, SP, NL>>}

\* Texts optimizeSvgBase does not take for an SVG document.
InvalidTexts ==
  {<<"abc">>,
   <<"abc", SP, LT, "svg", GT>>,
   <<LT, "g", SP, "fill", EQ, DQ, "red", DQ, GT,
       LT, "svg", SP, "fill", EQ, DQ, "red", DQ, SLASH, GT,
     LT, SLASH, "g", GT>>,
   <<LT, "svg", GT, LT, "g", GT, LT, SLASH, "svg", GT>>,
   <<LT, "svg", SP, "width", EQ, "24", SLASH, GT>>,
   <<LT, "svg", SP, "class", EQ, DQ, "a", DQ, SP, "class", EQ, DQ, "b", DQ, SLASH, GT>>,
   <<LT, "svg", SP, "width", EQ, DQ, "24", DQ, "height", EQ, DQ, "24", DQ, SLASH, GT>>,
   <<LT, "svg", SLASH, GT, LT, "svg", SLASH, GT>>,
   <<LT, "svg", SP, "class", EQ, DQ, "a", DQ, GT>>,
   <<LT, "svg", SP, "class", EQ, DQ, "a", DQ, SLASH, GT, "abc">>,
   <<LT, "svg", SP, "class", EQ, DQ, "a", DQ, GT, LONE, LT, SLASH, "svg", GT>>,
   <<LT, "svg", SP, "class", EQ, DQ, "a", DQ, GT,
       LT, "parsererror", SLASH, GT,
     LT, SLASH, "svg", GT>>,
   <<LT, "SVG", SP, "class", EQ, DQ, "a", DQ, GT, LT, SLASH, "svg", GT>>}

InputTexts == BlankTexts \cup InvalidTexts \cup SvgTexts

\* The colours a user gives: the text input of ColorInput (lines 191-197)
\* takes any string.
PreviewColors == {<<"#ff0000">>, <<"$&">>}

\* The characters of a size string.
SizeChars == {"0", "1", "2", "a", COMMA, SP, "-", "."}

RECURSIVE Strings(_, _)
Strings(chars, n) ==
  IF n = 0 THEN {<<>>}
  ELSE Strings(chars, n - 1)
       \cup {Append(s, c) : s \in Strings(chars, n - 1), c \in chars}

\* The size strings of the specification (section 8), the initial one, and
\* one with duplicates.
ExampleSizeStrings ==
  {DefaultOptions.outputSizes,
   <<"1", "6", COMMA, SP, "2", "4", COMMA, SP, "3", "2">>,
   <<"0", COMMA, SP, "-", "5", COMMA, SP, "a", "b", "c", COMMA, SP, "1", "0">>,
   <<"8", COMMA, "8", COMMA, "1", "6">>,
   <<"1", "2", "a", "b", "c", COMMA, "3", ".", "7">>}

SizeStrings == Strings(SizeChars, MaxSizesLen) \cup ExampleSizeStrings

FlagOptions ==
  {[DefaultOptions EXCEPT !.removeClasses = c, !.removeWidth = w,
                          !.removeHeight = h, !.removeXmlns = x] :
     c \in BOOLEAN, w \in BOOLEAN, h \in BOOLEAN, x \in BOOLEAN}

(***************************************************************************)
(* The specifications.                                                     *)
(***************************************************************************)
\* What a user of the running component types and picks.
TypedTexts ==
  {<<>>, <<"abc">>,
   <<LT, "svg", SP, "class", EQ, DQ, "a", DQ, SP, "fill", EQ, SQ, "red", SQ, GT,
       LT, "g", SP, "class", EQ, DQ, "b", DQ, SLASH, GT,
     LT, SLASH, "svg", GT>>}

TypedSizes == {<<>>, <<"1", "6">>, DefaultOptions.outputSizes}

SliderValues == {SliderMin, 64, SliderMax}

\* The component from its construction, under every sequence of edits.
Init == Constructed(defaultSvg, DefaultOptions, DefaultSinglePreviewSize)

Next ==
  \/ Mount
  \/ \E value \in TypedTexts : SetInputSvg(value)
  \/ ToggleSettings
  \/ CloseSettings
  \/ \E field \in Switches : ToggleSwitch(field)
  \/ \E value \in TypedSizes : SetOutputSizes(value)
  \/ \E value \in PreviewColors : SetPreviewColor(value)
  \/ \E value \in SliderValues : SetSinglePreviewSize(value)
  \/ HandleCopy
  \/ CopyStatusTimeout
  \/ HandleDownload

Spec == Init /\ [][Next]_vars

\* optimizeSvgBase on every input text and every combination of the four
\* flags: the text and the flags are what the component holds when it
\* renders, and the user then pastes the output back as the input.
InitSvg ==
  \E in \in InputTexts, o \in FlagOptions :
    Constructed(in, o, DefaultSinglePreviewSize)

NextSvg == Mount \/ PasteOutputSvg

SpecSvg == InitSvg /\ [][NextSvg]_vars

\* previewRenderSvg and svgPreviewUrl on every input text and every preview
\* colour, under the initial flags.
InitColor ==
  \E in \in InputTexts : Constructed(in, DefaultOptions, DefaultSinglePreviewSize)

NextColor ==
  \/ Mount
  \/ \E value \in PreviewColors : SetPreviewColor(value)

SpecColor == InitColor /\ [][NextColor]_vars

\* parsedSizes on every size string.
InitSizes ==
  \E sizes \in SizeStrings :
    Constructed(defaultSvg, [DefaultOptions EXCEPT !.outputSizes = sizes],
                DefaultSinglePreviewSize)

NextSizes ==
  \/ Mount
  \/ \E value \in SliderValues : SetSinglePreviewSize(value)

SpecSizes == InitSizes /\ [][NextSizes]_vars


(***************************************************************************)
(* The properties.  What they need beyond the model: the documents of the  *)
(* texts a state holds, the attributes of every element of a document, and *)
(* the decoding of a data URL.                                             *)
(***************************************************************************)
\* The first render has happened: the derived values are those of a render.
Rendered == phase # "constructed"

IsBlank(t) == \A i \in 1..Len(t) : t[i] \in WhiteSpace

InputDocument == parseFromString(inputSvg)
InputRoot == InputDocument.documentElement
\* The input passes the test of line 21.
InputIsSvg == IsSvgDocument(InputDocument)

BaseDocument == parseFromString(baseOptimizedSvg)
BaseRoot == BaseDocument.documentElement

\* For el and every element below it, in document order: <<value>> when
\* the element has the attribute n, <<>> when it has not.
RECURSIVE AttributeOfEach(_, _)
AttributeOfEach(el, n) ==
  <<IF HasAttribute(el, n) THEN <<GetAttribute(el, n)>> ELSE <<>>>>
  \o Flatten([i \in 1..Len(el.childNodes) |->
                IF el.childNodes[i].type = "element"
                  THEN AttributeOfEach(el.childNodes[i], n)
                  ELSE <<>>])

\* C1: a non-blank input that fails the test of line 21 (wrong root tag or
\* a parsererror element) is returned as it is, under every combination of
\* the four flags.
InvalidInputEchoed ==
  (Rendered /\ ~IsBlank(inputSvg) /\ ~InputIsSvg) => baseOptimizedSvg = inputSvg

\* An invalid input with a class attribute, rendered with removeClasses,
\* removeWidth, removeHeight and removeXmlns all set.
InvalidInputRendered ==
  /\ phase = "mounted"
  /\ ~IsBlank(inputSvg) /\ ~InputIsSvg
  /\ "class" \in Range(inputSvg) /\ LT \in Range(inputSvg)
  /\ options.removeClasses /\ options.removeWidth
  /\ options.removeHeight /\ options.removeXmlns
  /\ baseOptimizedSvg = inputSvg

\* C2: for a valid input the output is a valid document; with removeClasses
\* no element of it has a class attribute, and without removeClasses every
\* element of it has the class attribute it has in the input, or none when
\* it has none there.
ClassesRemovedOrKept ==
  (Rendered /\ InputIsSvg) =>
    /\ IsSvgDocument(BaseDocument)
    /\ AttributeOfEach(BaseRoot, <<"class">>) =
         IF options.removeClasses
           THEN [i \in 1..Len(AttributeOfEach(InputRoot, <<"class">>)) |-> <<>>]
           ELSE AttributeOfEach(InputRoot, <<"class">>)

\* A valid input with class on the root and on three elements below it, two
\* of them nested, rendered with removeClasses.
NestedClassesRemoved ==
  /\ phase = "mounted"
  /\ InputIsSvg
  /\ options.removeClasses
  /\ HasAttribute(InputRoot, <<"class">>)
  /\ Cardinality({i \in 1..Len(AttributeOfEach(InputRoot, <<"class">>)) :
                    AttributeOfEach(InputRoot, <<"class">>)[i] # <<>>}) >= 4
  /\ "class" \notin Range(baseOptimizedSvg)

\* The attributes lines 26-36 remove from the root, each with its flag.
RootFlags ==
  {[flag |-> "removeXmlns", attribute |-> <<"xmlns">>],
   [flag |-> "removeWidth", attribute |-> <<"width">>],
   [flag |-> "removeHeight", attribute |-> <<"height">>]}

\* C3, its first part: for a valid input, the root of the output has none
\* of xmlns, width and height whose flag is set.
FlaggedRootAttributesAbsent ==
  (Rendered /\ InputIsSvg) =>
    \A f \in RootFlags :
      options[f.flag] => ~HasAttribute(BaseRoot, f.attribute)

\* C4: optimizeSvgBase on its own output, with the same flags, returns that
\* output: when the output of one render is pasted as the input, the render
\* that follows gives it again.
IdempotentOnOutput ==
  [][(phase' = "pasted" /\ inputSvg' = baseOptimizedSvg)
       => baseOptimizedSvg' = baseOptimizedSvg]_vars

\* The output of a valid input from which width, height and classes were
\* removed, given as the input again.
OutputPastedBack ==
  /\ phase = "pasted"
  /\ InputIsSvg
  /\ options.removeClasses /\ options.removeWidth /\ options.removeHeight
  /\ Len(InputRoot.childNodes) >= 2
  /\ Len(InputRoot.attributes) >= 1
  /\ baseOptimizedSvg = inputSvg


\* The text after the opening tag of the root of a serialized document:
\* the tag ends at the first ">", since the serializer writes a ">" of an
\* attribute value as "&gt;".
AfterRootTag(t) == SubSeq(t, IndexOfFrom(t, GT, 1) + 1, Len(t))

IsSuffix(u, t) ==
  Len(u) <= Len(t) /\ SubSeq(t, Len(t) - Len(u) + 1, Len(t)) = u

\* C5: when the base text is a valid document, all of it after the root's
\* opening tag, so every element below the root, stands unchanged at the
\* end of the colorized text.
OnlyRootTagColorized ==
  (Rendered /\ IsSvgDocument(BaseDocument)) =>
    IsSuffix(AfterRootTag(baseOptimizedSvg), previewRenderSvg)

PreviewDocument == parseFromString(previewRenderSvg)
PreviewRoot == PreviewDocument.documentElement

\* The attributes of el other than fill and stroke, in their order.
OtherAttributes(el) ==
  SelectSeq(el.attributes, LAMBDA a : a.name \notin {<<"fill">>, <<"stroke">>})

\* C6: when the base text is a valid document whose root is svg and has
\* content (so that its opening tag is a start tag "<svg ...>"), the
\* colorized text is a well-formed document whose root has fill with the
\* value previewColor, no stroke, and every other attribute of the base
\* root with its name and value.
ColorizedRootTag ==
  (/\ Rendered
   /\ IsSvgDocument(BaseDocument)
   /\ BaseRoot.tagName = <<"svg">>
   /\ BaseRoot.childNodes # <<>>) =>
    /\ IsSvgDocument(PreviewDocument)
    /\ HasAttribute(PreviewRoot, <<"fill">>)
    /\ GetAttribute(PreviewRoot, <<"fill">>) = options.previewColor
    /\ ~HasAttribute(PreviewRoot, <<"stroke">>)
    /\ OtherAttributes(PreviewRoot) = OtherAttributes(BaseRoot)

\* The text has no match of /<svg([^>]*?)>/: no "<svg" with a ">" after it.
HasNoSvgTag(t) ==
  ~\E i \in 1..Len(t), j \in 1..Len(t) :
     i + 1 < j /\ t[i] = LT /\ t[i + 1] = "svg" /\ t[j] = GT

\* C7 as stated: a base text without a root opening tag gives the empty
\* colorized text.
NoTagGivesEmpty ==
  (Rendered /\ HasNoSvgTag(baseOptimizedSvg)) => previewRenderSvg = <<>>

\* C7 as amended: a base text without a root opening tag is the colorized
\* text, unchanged; it is empty only when the base text is.
NoTagGivesBase ==
  (Rendered /\ HasNoSvgTag(baseOptimizedSvg)) => previewRenderSvg = baseOptimizedSvg

\* An invalid input without "<svg", echoed and then colorized.
EchoedTextColorized ==
  /\ phase = "mounted"
  /\ ~IsBlank(inputSvg) /\ ~InputIsSvg
  /\ baseOptimizedSvg = inputSvg
  /\ HasNoSvgTag(baseOptimizedSvg)
  /\ options.previewColor = <<"#ff0000">>
  /\ previewRenderSvg = baseOptimizedSvg

\* The values a fresh computation gives for the state's input and options.
CurrentBase == optimizeSvgBase(inputSvg, BaseOptions(options))
CurrentColorized == ComputePreviewRenderSvg(CurrentBase, options.previewColor)

\* C8: once rendered, outputSvg, and the text handleCopy and handleDownload
\* hold, is the colorized text of the current input and options when
\* applyPreviewColor is set and the base text of the current input and
\* flags when it is not.
OutputSvgCurrent ==
  Rendered =>
    /\ outputSvg = IF options.applyPreviewColor THEN CurrentColorized ELSE CurrentBase
    /\ copyText = outputSvg
    /\ downloadText = outputSvg

\* After edits of the text, a flag, the colour and applyPreviewColor.
OutputAfterEdits ==
  /\ phase = "mounted"
  /\ inputSvg # defaultSvg /\ InputIsSvg
  /\ options.applyPreviewColor
  /\ ~options.removeClasses
  /\ options.previewColor = <<"#ff0000">>
  /\ outputSvg = previewRenderSvg
  /\ outputSvg # baseOptimizedSvg


\* A string of code units has a surrogate without its partner.
HasUnpairedSurrogate(s) ==
  \E i \in 1..Len(s) :
    \/ /\ s[i] \in 55296..56319
       /\ (i = Len(s) \/ s[i + 1] \notin 56320..57343)
    \/ /\ s[i] \in 56320..57343
       /\ (i = 1 \/ s[i - 1] \notin 55296..56319)

\* The value of each character of the base64 alphabet, from 1.
Base64Index ==
  [c \in Range(Base64Chars) |-> CHOOSE i \in 1..Len(Base64Chars) : Base64Chars[i] = c]

\* The octets a group of four base64 characters stands for.
Base64DecodeGroup(g) ==
  LET v(k) == Base64Index[g[k]] - 1 IN
  IF g[3] = PAD THEN <<(v(1) * 4) + (v(2) \div 16)>>
  ELSE IF g[4] = PAD
    THEN <<(v(1) * 4) + (v(2) \div 16), ((v(2) % 16) * 16) + (v(3) \div 4)>>
  ELSE <<(v(1) * 4) + (v(2) \div 16), ((v(2) % 16) * 16) + (v(3) \div 4),
         ((v(3) % 4) * 64) + v(4)>>

Base64Decode(p) ==
  Flatten([k \in 1..(Len(p) \div 4) |-> Base64DecodeGroup(SubSeq(p, (4 * k) - 3, 4 * k))])

\* The UTF-16 code units of a code point.
Utf16(cp) ==
  IF cp < 65536 THEN <<cp>>
  ELSE <<55296 + ((cp - 65536) \div 1024), 56320 + ((cp - 65536) % 1024)>>

\* The string a sequence of UTF-8 octets stands for: each lead octet gives
\* the code point it starts, each continuation octet nothing.
Utf8Decode(b) ==
  Flatten([i \in 1..Len(b) |->
    IF b[i] < 128 THEN <<b[i]>>
    ELSE IF b[i] < 192 THEN <<>>
    ELSE IF b[i] < 224 THEN Utf16(((b[i] - 192) * 64) + (b[i + 1] - 128))
    ELSE IF b[i] < 240
      THEN Utf16(((b[i] - 224) * 4096) + ((b[i + 1] - 128) * 64) + (b[i + 2] - 128))
    ELSE Utf16(((b[i] - 240) * 262144) + ((b[i + 1] - 128) * 4096)
               + ((b[i + 2] - 128) * 64) + (b[i + 3] - 128))])

\* C9: svgPreviewUrl is empty when the colorized text is empty or cannot be
\* encoded (it has a surrogate without its partner); otherwise it is
\* "data:image/svg+xml;base64," and a payload whose base64 decoding, read
\* as UTF-8, is the colorized text.
PreviewUrlDecodes ==
  Rendered =>
    IF previewRenderSvg = <<>> \/ HasUnpairedSurrogate(StringOf(previewRenderSvg))
      THEN svgPreviewUrl = <<>>
      ELSE /\ svgPreviewUrl # <<>>
           /\ Head(svgPreviewUrl) = "data:image/svg+xml;base64,"
           /\ Utf8Decode(Base64Decode(Tail(svgPreviewUrl))) = StringOf(previewRenderSvg)

\* The URL of a colorized text with characters of two, three and four
\* UTF-8 octets.
UrlOfNonAsciiText ==
  /\ phase = "mounted"
  /\ {"\\u00E9", "\\u20AC", "\\uD83D\\uDE00"} \subseteq Range(previewRenderSvg)
  /\ options.previewColor = <<"#ff0000">>
  /\ svgPreviewUrl # <<>>

\* The characters of a token that is a whole number: digits, after an
\* optional sign.
IsInteger(token) ==
  LET digits == IF token # <<>> /\ Head(token) \in {"+", "-"} THEN Tail(token) ELSE token
  IN digits # <<>> /\ \A i \in 1..Len(digits) : digits[i] \in {ToString(d) : d \in 0..9}

RECURSIVE DecimalValue(_)
DecimalValue(digits) ==
  IF digits = <<>> THEN 0
  ELSE (10 * DecimalValue(SubSeq(digits, 1, Len(digits) - 1)))
       + (CHOOSE d \in 0..9 : ToString(d) = digits[Len(digits)])

\* The tokens between the commas of a string, white space at their ends
\* taken off.
RECURSIVE Tokens(_)
Tokens(s) ==
  IF COMMA \notin Range(s) THEN <<trim(s)>>
  ELSE LET c == CHOOSE i \in 1..Len(s) : s[i] = COMMA /\ \A j \in 1..i - 1 : s[j] # COMMA
       IN <<trim(SubSeq(s, 1, c - 1))>> \o Tokens(SubSeq(s, c + 1, Len(s)))

IsPositiveInteger(token) ==
  /\ IsInteger(token)
  /\ Head(token) # "-"
  /\ DecimalValue(IF Head(token) = "+" THEN Tail(token) ELSE token) > 0

\* C10: parsedSizes is the values of exactly the tokens of outputSizes that
\* are strictly positive whole numbers, in their order; every other token
\* is left out.
ParsedSizesAreWholeTokens ==
  Rendered =>
    LET kept == SelectSeq(Tokens(options.outputSizes), IsPositiveInteger)
    IN parsedSizes =
         [i \in 1..Len(kept) |->
            DecimalValue(IF Head(kept[i]) = "+" THEN Tail(kept[i]) ELSE kept[i])]

\* C11: when there is a preview to show, what the panel shows follows from
\* the length of parsedSizes: no size gives the guidance message, two or
\* more give one preview per size, and one size gives a single preview whose
\* size is that size until the user moves the slider, and from then on the
\* value the user chose with the slider.
PreviewFollowsSizes ==
  (Rendered /\ svgPreviewUrl # <<>>) =>
     /\ Len(parsedSizes) = 0 => PreviewMode = "message" /\ PreviewSizes = <<>>
     /\ Len(parsedSizes) = 1 =>
          /\ PreviewMode = "single"
          /\ PreviewSizes = IF sliderValue = <<>> THEN parsedSizes ELSE sliderValue
     /\ Len(parsedSizes) > 1 => PreviewMode = "multi" /\ PreviewSizes = parsedSizes

=============================================================================
